---- MODULE Spec2Model ----
(***************************************************************************)
(* Model of package log (johanfo/golog), src/log.go: a leveled logging     *)
(* facade over four MultiplePrint fan-out writers (Ilog, Dlog, Wlog, Flog) *)
(* guarded by one process-wide mutex, exclusiv.                            *)
(*                                                                         *)
(* Goroutines are the elements of Procs.  Every shared-memory access of    *)
(* the source is one step, so that the places where the source takes no    *)
(* lock (the read of a channel variable before Output locks, Append's      *)
(* read and write of d.outs, the reconfiguration functions) interleave     *)
(* the way the Go scheduler lets them.  A slice is its three-word header   *)
(* (ptr, len, cap) over a backing array in `arrays`; `range d.outs` under  *)
(* a racing Append may load ptr and len from different headers.            *)
(***************************************************************************)
EXTENDS Integers, Sequences, FiniteSets, TLC

\* ------------------------------------------------------------- bounds
\* reconfiguration calls (SetFlags, Reset, AppendFileWriter,
\* AppendFileDescriptor, MultiplePrint.Append) in one run of two goroutines
MaxCalls == 1
\* reconfiguration calls in one run of a single goroutine
SeqCalls == 3

\* reconfiguration calls in one run of two goroutines that both reconfigure
ReconfCalls == 2

Procs == {"g1", "g2"}
NoProc == "none"

\* ------------------------------------------------- program constants
Ldate == 1
Ltime == 2
Lshortfile == 16
LstdFlags == 3
\* golog.LstdFlags | golog.Lshortfile, the initial createflags and the
\* flags AppendFileWriter / AppendFileDescriptor hardcode
DefaultFlags == 19
\* flags a caller hands to SetFlags
FlagArgs == {Lshortfile}

\* the four channel variables, in the order the source assigns them
ChanSeq == <<"Ilog", "Dlog", "Wlog", "Flog">>
Chans == {ChanSeq[i] : i \in 1..4}
\* the Fatal channel tagged by its variable's name
TagByName(c) == CASE c = "Ilog" -> "I:" [] c = "Dlog" -> "D:"
                  [] c = "Wlog" -> "W:" [] c = "Flog" -> "F:"
Tag(c) == CASE c = "Ilog" -> "I:" [] c = "Dlog" -> "D:"
            [] c = "Wlog" -> "W:" [] c = "Flog" -> "C:"

\* golog.New(w, prefix, flags): an Outputer writing to destination w
New(w, prefix, flags) == [dest |-> w, prefix |-> prefix, flags |-> flags]

Stdout == "stdout"
\* the files a caller names to AppendFileWriter, and the open files it hands
\* to AppendFileDescriptor
Paths == {"f1"}
Handles == {"f2"}
\* Outputers a caller appends directly with MultiplePrint.Append: a logger
\* over a closed file, whose Output returns an error
UserOuts == {New("closed", "U:", 0)}
\* the channel variables on which a caller calls Append directly
AppendChans == {"Ilog", "Flog"}
\* a *MultiplePrint handed over as an Outputer: the writer at heap index d,
\* which is kept in the field a MultiplePrint has no use for
Writer(d) == [dest |-> "MultiplePrint", prefix |-> "", flags |-> d]
IsWriter(v) == v.dest = "MultiplePrint"
\* the channels whose writer a caller appends to another channel
NestedChans == {"Wlog"}
\* whether Output on Outputer v returns an error, which its destination decides
Fails(v) == v.dest = "closed"

\* the nil slice pointer, the zero value of an array slot, and what a load
\* beyond a backing array's end yields
Nil == 0
NilOut == [dest |-> "nil", prefix |-> "", flags |-> 0]
Garbage == [dest |-> "garbage", prefix |-> "", flags |-> 0]

\* ------------------------------------------------------ emission table
EmitFns == {"Info", "Infof", "Debug", "Debugf", "Warning", "Warningf",
            "Fatal", "Fatalf", "Println", "Printf", "PrintfLevel"}
\* the text each goroutine logs, and the extra depth it gives PrintfLevel
MsgOf(t) == IF t = "g1" THEN "a" ELSE "b"
Ups == {1}

ChanOf(fn) == CASE fn \in {"Info", "Infof", "Println", "Printf", "PrintfLevel"} -> "Ilog"
                [] fn \in {"Debug", "Debugf"} -> "Dlog"
                [] fn \in {"Warning", "Warningf"} -> "Wlog"
                [] fn \in {"Fatal", "Fatalf"} -> "Flog"
Gated(fn) == fn \in {"Debug", "Debugf"}
Terminal(fn) == fn \in {"Fatal", "Fatalf"}
\* PrintfLevel dropping its up argument
CallDepthNoUp(fn, up) == IF fn = "PrintfLevel" THEN 2 + 0 * up ELSE 2
\* the call depth the facade hands to Output
CallDepth(fn, up) == IF fn = "PrintfLevel" THEN 2 + up ELSE 2
\* fmt.Sprint / fmt.Sprintf of one string operand, fmt.Sprintln adds "\n"
Format(fn, m) == IF fn = "Println" THEN m \o "\n" ELSE m

\* ---------------------------------------------------------------- state
VARIABLES
  Verbose,      \* var Verbose
  createflags,  \* var createflags
  chan,         \* Ilog, Dlog, Wlog, Flog: channel variable -> *MultiplePrint
  outs,         \* heap of MultiplePrint values: d.outs as [ptr, len, cap]
  arrays,       \* heap of backing arrays of []Outputer
  exclusiv,     \* var exclusiv sync.Mutex: the goroutine holding it, or NoProc
  pc,           \* each goroutine's position
  em,           \* locals of a goroutine inside an emission function
  rc,           \* locals of a goroutine inside a reconfiguration function
  status,       \* "running", "exited" (os.Exit) or "panicked"
  exitCode,     \* the process's exit status once it has stopped
  held,         \* history: the sink lists each MultiplePrint has held
  added,        \* history: the Outputers each MultiplePrint was given, in order
  silenced,     \* history: Reset has returned and no reconfiguration began since
  loggers,      \* the goroutines that call emission functions in this run
  admins,       \* the goroutines that call reconfiguration functions in this run
  quota         \* reconfiguration calls left in this run

vars == <<Verbose, createflags, chan, outs, arrays, exclusiv, pc, em, rc,
          status, exitCode, held, added, silenced, loggers, admins, quota>>

Unread == -1

\* type MultiplePrint struct { outs []Outputer }
Slice(ptr, len, cap) == [ptr |-> ptr, len |-> len, cap |-> cap]
NilSlice == Slice(Nil, 0, 0)

\* element k (from 1) of the array at ptr in heap arrs, as a load from
\* memory yields it
SlotIn(arrs, ptr, k) ==
  IF ptr = Nil THEN NilOut
  ELSE IF k > Len(arrs[ptr]) THEN Garbage
  ELSE arrs[ptr][k]
Slot(ptr, k) == SlotIn(arrays, ptr, k)

\* the elements a slice header denotes
ElemsIn(arrs, h) == [k \in 1..h.len |-> SlotIn(arrs, h.ptr, k)]
Elems(h) == ElemsIn(arrays, h)
\* the sink list of MultiplePrint d, and of a channel
ListOf(d) == Elems(outs[d])
ChanList(c) == ListOf(chan[c])

IdleEm == [fn |-> "", msg |-> "", up |-> 0, s |-> "", i |-> 0, d |-> Nil,
           rp |-> Unread, rl |-> Unread, idx |-> 0, inv |-> <<>>,
           verbose |-> FALSE, ret |-> "none", stack |-> <<>>]
IdleRc == [op |-> "", flags |-> 0, f |-> "", o |-> NilOut, targets |-> <<>>,
           k |-> 0, d |-> Nil, hdr |-> NilSlice, err |-> "none",
           ret |-> "none", pre |-> <<>>, prev |-> <<>>]

Running == status = "running"
InReconf(t) == rc[t].op # ""

\* var ( ... ) initialisers: one default sink per channel
Program ==
  /\ Verbose = FALSE
  /\ createflags = DefaultFlags
  /\ chan = [c \in Chans |-> CHOOSE k \in 1..4 : ChanSeq[k] = c]
  /\ outs = [k \in 1..4 |-> Slice(k, 1, 1)]
  /\ arrays = [k \in 1..4 |-> <<New(Stdout, Tag(ChanSeq[k]), DefaultFlags)>>]
  /\ exclusiv = NoProc
  /\ pc = [t \in Procs |-> "idle"]
  /\ em = [t \in Procs |-> IdleEm]
  /\ rc = [t \in Procs |-> IdleRc]
  /\ status = "running"
  /\ exitCode = 0
  /\ held = [k \in 1..4 |-> {<<New(Stdout, Tag(ChanSeq[k]), DefaultFlags)>>}]
  /\ added = [k \in 1..4 |-> <<New(Stdout, Tag(ChanSeq[k]), DefaultFlags)>>]
  /\ silenced = FALSE

\* two goroutines log concurrently, and one of them reconfigures
Init == Program /\ loggers = Procs /\ admins = {"g1"} /\ quota = MaxCalls
\* one goroutine calls the package
InitSeq == Program /\ loggers = {"g1"} /\ admins = {"g1"} /\ quota = SeqCalls

heapVars == <<createflags, chan, outs, arrays, held, added>>
countVars == <<loggers, admins, quota>>
procVars == <<status, exitCode>>

\* ------------------------------------------------------------ emission
\* the other emission functions testing Verbose as Debug does
EmitCallGated(t) ==
  /\ Running /\ pc[t] = "idle" /\ t \in loggers
  /\ \E fn \in EmitFns, up \in Ups :
       /\ ~Gated(fn)
       /\ em' = [em EXCEPT ![t] = [IdleEm EXCEPT !.fn = fn, !.msg = MsgOf(t),
                                     !.up = IF fn = "PrintfLevel" THEN up ELSE 0,
                                     !.i = CallDepth(fn, up),
                                     !.s = Format(fn, MsgOf(t)),
                                     !.d = IF Verbose THEN chan[ChanOf(fn)]
                                                      ELSE Nil]]
  /\ pc' = [pc EXCEPT ![t] = IF Verbose THEN "lock" ELSE "ret"]
  /\ UNCHANGED <<Verbose, heapVars, exclusiv, rc, procVars, silenced, countVars>>

\* goroutine t calls Info, Infof, Warning, Warningf, Fatal, Fatalf, Println,
\* Printf or PrintfLevel: Xlog.Output(2, fmt.Sprint(x...)), of which the
\* receiver and the argument are evaluated and Output is entered
EmitCall(t) ==
  /\ Running /\ pc[t] = "idle" /\ t \in loggers
  /\ \E fn \in EmitFns, up \in Ups :
       /\ ~Gated(fn)
       /\ em' = [em EXCEPT ![t] = [IdleEm EXCEPT !.fn = fn, !.msg = MsgOf(t),
                                     !.up = IF fn = "PrintfLevel" THEN up ELSE 0,
                                     !.i = CallDepth(fn, up),
                                     !.s = Format(fn, MsgOf(t)),
                                     !.d = chan[ChanOf(fn)]]]
  /\ pc' = [pc EXCEPT ![t] = "lock"]
  /\ UNCHANGED <<Verbose, heapVars, exclusiv, rc, procVars, silenced, countVars>>

\* Debug and Debugf without the test of Verbose
DebugCallUngated(t) ==
  /\ Running /\ pc[t] = "idle" /\ t \in loggers
  /\ \E fn \in EmitFns :
       /\ Gated(fn)
       /\ em' = [em EXCEPT ![t] = [IdleEm EXCEPT !.fn = fn, !.msg = MsgOf(t),
                                     !.i = CallDepth(fn, 0),
                                     !.verbose = Verbose]]
  /\ pc' = [pc EXCEPT ![t] = "recv"]
  /\ UNCHANGED <<Verbose, heapVars, exclusiv, rc, procVars, silenced, countVars>>

\* goroutine t calls Debug or Debugf: if Verbose { ... }, and nothing else
DebugCall(t) ==
  /\ Running /\ pc[t] = "idle" /\ t \in loggers
  /\ \E fn \in EmitFns :
       /\ Gated(fn)
       /\ em' = [em EXCEPT ![t] = [IdleEm EXCEPT !.fn = fn, !.msg = MsgOf(t),
                                     !.i = CallDepth(fn, 0),
                                     !.verbose = Verbose]]
  /\ pc' = [pc EXCEPT ![t] = IF Verbose THEN "recv" ELSE "ret"]
  /\ UNCHANGED <<Verbose, heapVars, exclusiv, rc, procVars, silenced, countVars>>

\* Dlog.Output(2, fmt.Sprint(x...)) inside the if: the receiver and the
\* argument are evaluated and Output is entered
Recv(t) ==
  /\ Running /\ pc[t] = "recv"
  /\ em' = [em EXCEPT ![t].d = chan[ChanOf(em[t].fn)],
                      ![t].s = Format(em[t].fn, em[t].msg)]
  /\ pc' = [pc EXCEPT ![t] = "lock"]
  /\ UNCHANGED <<Verbose, heapVars, exclusiv, rc, procVars, silenced, countVars>>

\* Lock as a mutex that does not exclude would behave
LockNoWait(t) ==
  /\ Running /\ pc[t] = "lock"
  /\ exclusiv' = t
  /\ pc' = [pc EXCEPT ![t] = "range"]
  /\ UNCHANGED <<Verbose, heapVars, em, rc, procVars, silenced, countVars>>

\* exclusiv.Lock()
Lock(t) ==
  /\ Running /\ pc[t] = "lock"
  /\ exclusiv = NoProc
  /\ exclusiv' = t
  /\ pc' = [pc EXCEPT ![t] = "range"]
  /\ UNCHANGED <<Verbose, heapVars, em, rc, procVars, silenced, countVars>>

\* for _, v := range d.outs: the range expression is evaluated once, by a
\* load of the slice's pointer word and a load of its length word, which no
\* lock orders against Append's store of d.outs
RangeLoadPtr(t) ==
  /\ Running /\ pc[t] = "range" /\ em[t].rp = Unread
  /\ em' = [em EXCEPT ![t].rp = outs[em[t].d].ptr]
  /\ pc' = [pc EXCEPT ![t] = IF em[t].rl = Unread THEN "range" ELSE "loop"]
  /\ UNCHANGED <<Verbose, heapVars, exclusiv, rc, procVars, silenced, countVars>>

RangeLoadLen(t) ==
  /\ Running /\ pc[t] = "range" /\ em[t].rl = Unread
  /\ em' = [em EXCEPT ![t].rl = outs[em[t].d].len]
  /\ pc' = [pc EXCEPT ![t] = IF em[t].rp = Unread THEN "range" ELSE "loop"]
  /\ UNCHANGED <<Verbose, heapVars, exclusiv, rc, procVars, silenced, countVars>>

\* what Output keeps on its stack while it calls the Output of an element
Frame(e) == [d |-> e.d, i |-> e.i, rp |-> e.rp, rl |-> e.rl, idx |-> e.idx]

\* the loop left at the first sink that returns an error
InvokeUntilError(t) ==
  /\ Running /\ pc[t] = "loop" /\ em[t].idx < em[t].rl
  /\ LET v == Slot(em[t].rp, em[t].idx + 1)
         call == [out |-> v, depth |-> em[t].i + 1, line |-> em[t].s,
                  err |-> Fails(v)]
     IN \/ /\ v # NilOut /\ ~IsWriter(v)
           /\ em' = [em EXCEPT ![t].idx = IF Fails(v) THEN em[t].rl ELSE @ + 1,
                               ![t].inv = Append(@, call)]
           /\ UNCHANGED <<pc, procVars>>
        \/ /\ IsWriter(v)
           /\ em' = [em EXCEPT ![t].stack = Append(@, Frame(em[t])),
                               ![t].inv = Append(@, call),
                               ![t].d = v.flags, ![t].i = @ + 1,
                               ![t].rp = Unread, ![t].rl = Unread,
                               ![t].idx = 0]
           /\ pc' = [pc EXCEPT ![t] = "lock"]
           /\ UNCHANGED procVars
        \/ /\ v \in {NilOut, Garbage}
           /\ status' = "panicked" /\ exitCode' = 2
           /\ UNCHANGED <<pc, em>>
  /\ UNCHANGED <<Verbose, heapVars, exclusiv, rc, silenced, countVars>>

\* v.Output(i+1, s) on the next element; its error result is dropped.  A nil
\* element panics; a load beyond the array yields whatever lies there, which
\* panics or runs as if it were an Outputer.  An element that is a
\* *MultiplePrint runs this same method: Output is entered again, on it.
Invoke(t) ==
  /\ Running /\ pc[t] = "loop" /\ em[t].idx < em[t].rl
  /\ LET v == Slot(em[t].rp, em[t].idx + 1)
         call == [out |-> v, depth |-> em[t].i + 1, line |-> em[t].s,
                  err |-> Fails(v)]
     IN \/ /\ v # NilOut /\ ~IsWriter(v)
           /\ em' = [em EXCEPT ![t].idx = @ + 1,
                               ![t].inv = Append(@, call)]
           /\ UNCHANGED <<pc, procVars>>
        \/ /\ IsWriter(v)
           /\ em' = [em EXCEPT ![t].stack = Append(@, Frame(em[t])),
                               ![t].inv = Append(@, call),
                               ![t].d = v.flags, ![t].i = @ + 1,
                               ![t].rp = Unread, ![t].rl = Unread,
                               ![t].idx = 0]
           /\ pc' = [pc EXCEPT ![t] = "lock"]
           /\ UNCHANGED procVars
        \/ /\ v \in {NilOut, Garbage}
           /\ status' = "panicked" /\ exitCode' = 2
           /\ UNCHANGED <<pc, em>>
  /\ UNCHANGED <<Verbose, heapVars, exclusiv, rc, silenced, countVars>>

\* return nil with the mutex still locked
ReturnLocked(t) ==
  /\ Running /\ pc[t] = "loop" /\ em[t].idx = em[t].rl
  /\ pc' = [pc EXCEPT ![t] = "ret"]
  /\ em' = [em EXCEPT ![t].ret = "nil"]
  /\ UNCHANGED <<Verbose, heapVars, exclusiv, rc, procVars, silenced, countVars>>

\* exclusiv.Unlock(); return nil: to the facade function, or to the Output
\* that called this one, whose loop goes on with its next element
Unlock(t) ==
  /\ Running /\ pc[t] = "loop" /\ em[t].idx = em[t].rl
  /\ exclusiv' = NoProc
  /\ IF em[t].stack = <<>>
       THEN /\ pc' = [pc EXCEPT ![t] = "ret"]
            /\ em' = [em EXCEPT ![t].ret = "nil"]
       ELSE LET f == em[t].stack[Len(em[t].stack)]
            IN /\ pc' = pc
               /\ em' = [em EXCEPT ![t].stack = SubSeq(@, 1, Len(@) - 1),
                                   ![t].d = f.d, ![t].i = f.i, ![t].rp = f.rp,
                                   ![t].rl = f.rl, ![t].idx = f.idx + 1]
  /\ UNCHANGED <<Verbose, heapVars, rc, procVars, silenced, countVars>>

\* the facade function returns to its caller
Return(t) ==
  /\ Running /\ pc[t] = "ret" /\ ~Terminal(em[t].fn)
  /\ pc' = [pc EXCEPT ![t] = "idle"]
  /\ em' = [em EXCEPT ![t] = IdleEm]
  /\ UNCHANGED <<Verbose, heapVars, exclusiv, rc, procVars, silenced, countVars>>

\* os.Exit(1) ahead of the write
ExitBeforeOutput(t) ==
  /\ Running /\ pc[t] = "lock" /\ Terminal(em[t].fn)
  /\ status' = "exited" /\ exitCode' = 1
  /\ pc' = [pc EXCEPT ![t] = "exit"]
  /\ UNCHANGED <<Verbose, heapVars, exclusiv, em, rc, silenced, countVars>>

\* Fatal, Fatalf: os.Exit(1) once Output has returned
Exit(t) ==
  /\ Running /\ pc[t] = "ret" /\ Terminal(em[t].fn)
  /\ status' = "exited" /\ exitCode' = 1
  /\ pc' = [pc EXCEPT ![t] = "exit"]
  /\ UNCHANGED <<Verbose, heapVars, exclusiv, em, rc, silenced, countVars>>

\* a caller assigns the exported variable: log.Verbose = b
SetVerbose ==
  /\ Running
  /\ \E b \in BOOLEAN : b # Verbose /\ Verbose' = b
  /\ UNCHANGED <<heapVars, exclusiv, pc, em, rc, procVars, silenced, countVars>>

\* ------------------------------------------------------ reconfiguration
\* goroutine t enters a reconfiguration function with locals r.  History:
\* pre is each channel's sink list at the call, prev each channel's writer,
\* and silenced ends.
Enter(t, r) ==
  /\ t \in admins /\ quota > 0
  /\ quota' = quota - 1
  /\ rc' = [rc EXCEPT ![t] = [r EXCEPT !.pre = [c \in Chans |-> ChanList(c)],
                                         !.prev = chan]]
  /\ silenced' = FALSE
  /\ UNCHANGED <<loggers, admins>>

\* func SetFlags(flags int)
SetFlagsCall(t) ==
  /\ Running /\ pc[t] = "idle"
  /\ \E flags \in FlagArgs :
       Enter(t, [IdleRc EXCEPT !.op = "SetFlags", !.flags = flags])
  /\ pc' = [pc EXCEPT ![t] = "createflags"]
  /\ UNCHANGED <<Verbose, heapVars, exclusiv, em, procVars>>

\* createflags = flags
SetCreateflags(t) ==
  /\ Running /\ pc[t] = "createflags"
  /\ createflags' = rc[t].flags
  /\ rc' = [rc EXCEPT ![t].k = 1]
  /\ pc' = [pc EXCEPT ![t] = "assign"]
  /\ UNCHANGED <<Verbose, chan, outs, arrays, held, added, exclusiv, em, procVars,
                 silenced, countVars>>

\* the slice a new MultiplePrint starts with: CreateMultiplePrint(o) makes
\* []Outputer{o}, &MultiplePrint{} the nil slice
CreateMultiplePrint(o) == <<o>>
\* Reset building writers as the initialisers do
DefaultMultiplePrint == <<New(Stdout, "I:", DefaultFlags)>>
ZeroMultiplePrint == <<>>

\* Xlog = CreateMultiplePrint(golog.New(os.Stdout, tag, flags)) in SetFlags,
\* Xlog = &MultiplePrint{} in Reset: the k-th of the four assignments
Assign(t) ==
  /\ Running /\ pc[t] = "assign"
  /\ LET c == ChanSeq[rc[t].k]
         elems == IF rc[t].op = "SetFlags"
                    THEN CreateMultiplePrint(New(Stdout, Tag(c), rc[t].flags))
                    ELSE ZeroMultiplePrint
         a == Len(arrays) + 1
         d == Len(outs) + 1
     IN /\ arrays' = IF elems = <<>> THEN arrays ELSE Append(arrays, elems)
        /\ outs' = Append(outs, IF elems = <<>> THEN NilSlice
                                ELSE Slice(a, Len(elems), Len(elems)))
        /\ held' = Append(held, {elems})
        /\ added' = Append(added, elems)
        /\ chan' = [chan EXCEPT ![c] = d]
  /\ IF rc[t].k < 4
       THEN /\ rc' = [rc EXCEPT ![t].k = @ + 1]
            /\ UNCHANGED <<pc, silenced>>
       ELSE /\ rc' = [rc EXCEPT ![t].k = 0]
            /\ pc' = [pc EXCEPT ![t] = "rret"]
            /\ silenced' = (rc[t].op = "Reset" /\ \A u \in Procs \ {t} : ~InReconf(u))
  /\ UNCHANGED <<Verbose, createflags, exclusiv, em, procVars, countVars>>

\* func Reset()
ResetCall(t) ==
  /\ Running /\ pc[t] = "idle"
  /\ Enter(t, [IdleRc EXCEPT !.op = "Reset", !.k = 1])
  /\ pc' = [pc EXCEPT ![t] = "assign"]
  /\ UNCHANGED <<Verbose, heapVars, exclusiv, em, procVars>>

\* func AppendFileWriter(filename string) error
AppendFileWriterCall(t) ==
  /\ Running /\ pc[t] = "idle"
  /\ \E filename \in Paths :
       Enter(t, [IdleRc EXCEPT !.op = "AppendFileWriter", !.f = filename,
                               !.targets = ChanSeq])
  /\ pc' = [pc EXCEPT ![t] = "open"]
  /\ UNCHANGED <<Verbose, heapVars, exclusiv, em, procVars>>

\* AppendFileWriter without the test of err
OpenFileUnchecked(t) ==
  /\ Running /\ pc[t] = "open"
  /\ \E err \in {"nil", "io"} :
       /\ rc' = [rc EXCEPT ![t].err = err, ![t].k = 1]
       /\ pc' = [pc EXCEPT ![t] = "arecv"]
  /\ UNCHANGED <<Verbose, heapVars, exclusiv, em, procVars, silenced, countVars>>

\* f, err := os.OpenFile(...); if err != nil { return err }
OpenFile(t) ==
  /\ Running /\ pc[t] = "open"
  /\ \E err \in {"nil", "io"} :
       IF err = "nil"
         THEN /\ rc' = [rc EXCEPT ![t].err = err, ![t].k = 1]
              /\ pc' = [pc EXCEPT ![t] = "arecv"]
         ELSE /\ rc' = [rc EXCEPT ![t].err = err, ![t].ret = err]
              /\ pc' = [pc EXCEPT ![t] = "rret"]
  /\ UNCHANGED <<Verbose, heapVars, exclusiv, em, procVars, silenced, countVars>>

\* func AppendFileDescriptor(f *os.File)
AppendFileDescriptorCall(t) ==
  /\ Running /\ pc[t] = "idle"
  /\ \E f \in Handles :
       Enter(t, [IdleRc EXCEPT !.op = "AppendFileDescriptor", !.f = f,
                               !.targets = ChanSeq, !.k = 1])
  /\ pc' = [pc EXCEPT ![t] = "arecv"]
  /\ UNCHANGED <<Verbose, heapVars, exclusiv, em, procVars>>

\* a caller appends to one channel's writer: log.Xlog.Append(o)
AppendCall(t) ==
  /\ Running /\ pc[t] = "idle"
  /\ \E c \in AppendChans, o \in UserOuts :
       Enter(t, [IdleRc EXCEPT !.op = "Append", !.o = o,
                               !.targets = <<c>>, !.k = 1])
  /\ pc' = [pc EXCEPT ![t] = "arecv"]
  /\ UNCHANGED <<Verbose, heapVars, exclusiv, em, procVars>>

\* a caller appends one channel's writer to another channel's:
\* log.Xlog.Append(log.Ylog)
AppendWriterCall(t) ==
  /\ Running /\ pc[t] = "idle"
  /\ \E c \in AppendChans, c2 \in NestedChans :
       Enter(t, [IdleRc EXCEPT !.op = "Append", !.o = Writer(chan[c2]),
                               !.targets = <<c>>, !.k = 1])
  /\ pc' = [pc EXCEPT ![t] = "arecv"]
  /\ UNCHANGED <<Verbose, heapVars, exclusiv, em, procVars>>

\* every file sink built with the Info channel's tag
AppendArgOneTag(t) ==
  IF rc[t].op = "Append" THEN rc[t].o
  ELSE New(rc[t].f, "I:", DefaultFlags)

\* file sinks built with the flags last given to SetFlags
AppendArgCreateflags(t) ==
  IF rc[t].op = "Append" THEN rc[t].o
  ELSE New(rc[t].f, Tag(rc[t].targets[rc[t].k]), createflags)

\* the Outputer the current Append call of t is given
AppendArg(t) ==
  IF rc[t].op = "Append" THEN rc[t].o
  ELSE New(rc[t].f, Tag(rc[t].targets[rc[t].k]), DefaultFlags)

\* Xlog.Append(golog.New(...)): the receiver is evaluated
AppendRecv(t) ==
  /\ Running /\ pc[t] = "arecv"
  /\ rc' = [rc EXCEPT ![t].d = chan[rc[t].targets[rc[t].k]]]
  /\ pc' = [pc EXCEPT ![t] = "aload"]
  /\ UNCHANGED <<Verbose, heapVars, exclusiv, em, procVars,
                 silenced, countVars>>

\* d.outs = append(d.outs, o): d.outs is loaded
AppendLoad(t) ==
  /\ Running /\ pc[t] = "aload"
  /\ rc' = [rc EXCEPT ![t].hdr = outs[rc[t].d]]
  /\ pc' = [pc EXCEPT ![t] = IF outs[rc[t].d].len + 1 > outs[rc[t].d].cap
                               THEN "agrow" ELSE "astorelen"]
  /\ UNCHANGED <<Verbose, heapVars, exclusiv, em, procVars,
                 silenced, countVars>>

\* the capacity growslice gives a slice of old capacity cap that needs one
\* more element (doubling, below the 256-element threshold)
GrowCap(cap) == IF cap = 0 THEN 1 ELSE 2 * cap

\* growslice copying one element too few
GrowArrayShort(h) ==
  [k \in 1..GrowCap(h.cap) |-> IF k < h.len THEN Slot(h.ptr, k) ELSE NilOut]

\* the array growslice returns: the old elements, then zero values
GrowArray(h) ==
  [k \in 1..GrowCap(h.cap) |-> IF k <= h.len THEN Slot(h.ptr, k) ELSE NilOut]

\* len+1 > cap: growslice copies into a new array, and the new pointer and
\* capacity are stored in d.outs
AppendGrow(t) ==
  /\ Running /\ pc[t] = "agrow"
  /\ LET h == rc[t].hdr
         a == Len(arrays) + 1
     IN /\ arrays' = Append(arrays, GrowArray(h))
        /\ outs' = [outs EXCEPT ![rc[t].d].ptr = a,
                                ![rc[t].d].cap = GrowCap(h.cap)]
        /\ rc' = [rc EXCEPT ![t].hdr = Slice(a, h.len, GrowCap(h.cap))]
  /\ pc' = [pc EXCEPT ![t] = "astorelen"]
  /\ UNCHANGED <<Verbose, createflags, chan, held, added, exclusiv, em, procVars,
                 silenced, countVars>>

\* the new length is stored in d.outs
AppendStoreLen(t) ==
  /\ Running /\ pc[t] = "astorelen"
  /\ outs' = [outs EXCEPT ![rc[t].d].len = rc[t].hdr.len + 1]
  /\ pc' = [pc EXCEPT ![t] = "astoreelem"]
  /\ UNCHANGED <<Verbose, createflags, chan, arrays, held, added, exclusiv, em, rc,
                 procVars, silenced, countVars>>

\* o is stored in the array at the old length; Append returns
AppendStoreElem(t) ==
  /\ Running /\ pc[t] = "astoreelem"
  /\ LET arrs == [arrays EXCEPT ![rc[t].hdr.ptr][rc[t].hdr.len + 1] = AppendArg(t)]
     IN /\ arrays' = arrs
        /\ held' = [held EXCEPT ![rc[t].d] = @ \cup {ElemsIn(arrs, outs[rc[t].d])}]
        /\ added' = [added EXCEPT ![rc[t].d] = Append(@, AppendArg(t))]
  /\ IF rc[t].k < Len(rc[t].targets)
       THEN /\ rc' = [rc EXCEPT ![t].k = @ + 1]
            /\ pc' = [pc EXCEPT ![t] = "arecv"]
       ELSE /\ rc' = [rc EXCEPT ![t].ret = IF rc[t].op = "AppendFileWriter"
                                             THEN "nil" ELSE "none"]
            /\ pc' = [pc EXCEPT ![t] = "rret"]
  /\ UNCHANGED <<Verbose, createflags, chan, outs, exclusiv, em, procVars,
                 silenced, countVars>>

\* the reconfiguration function returns to its caller
ReconfReturn(t) ==
  /\ Running /\ pc[t] = "rret"
  /\ rc' = [rc EXCEPT ![t] = IdleRc]
  /\ pc' = [pc EXCEPT ![t] = "idle"]
  /\ UNCHANGED <<Verbose, heapVars, exclusiv, em, procVars,
                 silenced, countVars>>

\* -------------------------------------------------------- specification
Next ==
  \/ \E t \in Procs :
       \/ EmitCall(t) \/ DebugCall(t) \/ Recv(t) \/ Lock(t)
       \/ RangeLoadPtr(t) \/ RangeLoadLen(t) \/ Invoke(t) \/ Unlock(t)
       \/ Return(t) \/ Exit(t)
       \/ SetFlagsCall(t) \/ SetCreateflags(t) \/ Assign(t) \/ ResetCall(t)
       \/ AppendFileWriterCall(t) \/ OpenFile(t) \/ AppendFileDescriptorCall(t)
       \/ AppendCall(t) \/ AppendRecv(t) \/ AppendLoad(t) \/ AppendGrow(t)
       \/ AppendStoreLen(t) \/ AppendStoreElem(t) \/ ReconfReturn(t)
  \/ SetVerbose

Spec == Init /\ [][Next]_vars
SpecSeq == InitSeq /\ [][Next]_vars

\* two goroutines reconfigure concurrently and nothing is logged
InitReconf == Program /\ loggers = {} /\ admins = Procs /\ quota = ReconfCalls
\* the goroutines that call AppendFileWriter and AppendFileDescriptor while
\* both call SetFlags and Reset
Appenders == {"g1"}
NextReconf ==
  \/ \E t \in Procs :
       \/ SetFlagsCall(t) \/ SetCreateflags(t) \/ Assign(t) \/ ResetCall(t)
       \/ ReconfReturn(t)
  \/ \E t \in Appenders :
       \/ AppendFileWriterCall(t) \/ OpenFile(t) \/ AppendFileDescriptorCall(t)
       \/ AppendRecv(t) \/ AppendLoad(t) \/ AppendGrow(t)
       \/ AppendStoreLen(t) \/ AppendStoreElem(t)
SpecReconf == InitReconf /\ [][NextReconf]_vars

\* two goroutines call MultiplePrint.Append on the channels' writers
NextAppend ==
  \E t \in Procs :
    \/ AppendCall(t) \/ AppendRecv(t) \/ AppendLoad(t) \/ AppendGrow(t)
    \/ AppendStoreLen(t) \/ AppendStoreElem(t) \/ ReconfReturn(t)
SpecAppend == InitReconf /\ [][NextAppend]_vars

\* one goroutine logs and appends one channel's writer to another channel's
NextNested ==
  \/ \E t \in Procs :
       \/ EmitCall(t) \/ DebugCall(t) \/ Recv(t) \/ Lock(t)
       \/ RangeLoadPtr(t) \/ RangeLoadLen(t) \/ Invoke(t) \/ Unlock(t)
       \/ Return(t) \/ Exit(t)
       \/ AppendWriterCall(t) \/ AppendRecv(t) \/ AppendLoad(t) \/ AppendGrow(t)
       \/ AppendStoreLen(t) \/ AppendStoreElem(t) \/ ReconfReturn(t)
  \/ SetVerbose
SpecNested == InitSeq /\ [][NextNested]_vars

\* the steps goroutine t takes inside the package once it has called in,
\* other than waiting for the mutex
Progress(t) ==
  \/ Recv(t) \/ RangeLoadPtr(t) \/ RangeLoadLen(t) \/ Invoke(t) \/ Unlock(t)
  \/ Return(t) \/ Exit(t)
  \/ SetCreateflags(t) \/ Assign(t) \/ OpenFile(t) \/ AppendRecv(t)
  \/ AppendLoad(t) \/ AppendGrow(t) \/ AppendStoreLen(t) \/ AppendStoreElem(t)
  \/ ReconfReturn(t)
\* the Go scheduler runs every runnable goroutine again and again, every
\* sink's Output returns, and sync.Mutex hands the lock to a goroutine that
\* keeps waiting for it (starvation mode)
Fairness ==
  \A t \in Procs : WF_vars(Progress(t)) /\ SF_vars(Lock(t))
SpecFair == Init /\ [][Next]_vars /\ Fairness

\* =============================================================== claims
\* the Outputers goroutine t's emission has invoked so far, in order
InvOuts(t) == [k \in 1..Len(em[t].inv) |-> em[t].inv[k].out]
\* t is inside Output's locked region
InFanout(t) == pc[t] \in {"range", "loop"}
\* t has invoked a sink of its list and has sinks left to invoke
MidFanout(t) == pc[t] = "loop" /\ 0 < em[t].idx /\ em[t].idx < em[t].rl
\* t's call has come back from Output
Returned(t) == pc[t] \in {"ret", "exit"} /\ em[t].d # Nil

\* C1: at most one fan-out write is in progress at any instant, its goroutine
\* holds the lock, and while one emission is between its first and its last
\* sink invocation no other emission can invoke a sink.
C1_OneFanoutAtATime ==
  \A t \in Procs :
    /\ InFanout(t) => exclusiv = t
    /\ \A u \in Procs \ {t} :
         /\ ~(InFanout(t) /\ InFanout(u))
         /\ MidFanout(t) => ~ENABLED Invoke(u)
\* one goroutine is between two sinks of its list while the other waits for
\* the lock
C1_Witness ==
  \E t, u \in Procs : t # u /\ MidFanout(t) /\ pc[u] = "lock"

\* C2: the sinks an emission invokes are exactly a sink list its writer has
\* held, before or after a concurrent reconfiguration, and never a mix.
C2_AtomicSinkList ==
  /\ status # "panicked"
  /\ \A t \in Procs : Returned(t) => InvOuts(t) \in held[em[t].d]

\* C3: an Output after a sequence of Append calls invokes each sink once, in
\* the order the sinks were given (the constructor's first): while it runs it
\* has invoked a prefix of that sequence, without panicking, and when it
\* returns it has invoked all of it.
C3_AppendOrder ==
  /\ status # "panicked"
  /\ \A t \in Procs : em[t].d # Nil =>
        /\ Len(em[t].inv) <= Len(added[em[t].d])
        /\ InvOuts(t) = SubSeq(added[em[t].d], 1, Len(em[t].inv))
        /\ Returned(t) => InvOuts(t) = added[em[t].d]
\* an Output over a constructor's sink and three appended ones, the last of
\* which was appended in place
C3_Witness ==
  \E t \in Procs : Returned(t) /\ Len(em[t].inv) = 4 /\ outs[em[t].d].cap = 4

\* C4: a Debug or Debugf call that finds Verbose false invokes no sink; one
\* that finds it true invokes the sinks it ranges over, each with the call's
\* own line.
C4_DebugGate ==
  \A t \in Procs : em[t].fn \in {"Debug", "Debugf"} =>
    /\ ~em[t].verbose => (pc[t] = "ret" /\ em[t].inv = <<>> /\ em[t].d = Nil)
    /\ \A k \in 1..Len(em[t].inv) : em[t].inv[k].line = MsgOf(t)
    /\ Returned(t) => Len(em[t].inv) = em[t].rl
\* a Debug call was dropped while Verbose was false, and a later one, made
\* after Verbose became true, has written its own line
C4_Witness ==
  \E t, u \in Procs :
    /\ t # u
    /\ em[t].fn \in {"Debug", "Debugf"} /\ pc[t] = "ret" /\ ~em[t].verbose
    /\ em[u].fn \in {"Debug", "Debugf"} /\ Returned(u) /\ Len(em[u].inv) = 1
    /\ em[u].inv[1].line = MsgOf(u) /\ em[u].inv[1].out.prefix = "D:"


\* C5: once Reset has returned and until the next reconfiguration call, an
\* emission on any channel invokes no sink and its Output returns nil.
C5_SilentAfterReset ==
  silenced =>
    \A t \in Procs :
      /\ em[t].inv = <<>>
      /\ Returned(t) => (em[t].ret = "nil" /\ em[t].rl = 0)
\* after Reset, a Debug call that found Verbose true has come back from
\* Output without a sink invoked
C5_Witness ==
  \E t \in Procs :
    /\ silenced /\ Returned(t) /\ em[t].ret = "nil"
    /\ em[t].fn = "Debug" /\ em[t].verbose

\* C6: when AppendFileWriter cannot open the file it returns the error and
\* every channel still has the writer and the sinks it had at the call.
C6_FailedOpenChangesNothing ==
  \A t \in Procs :
    (rc[t].op = "AppendFileWriter" /\ rc[t].err = "io") =>
      /\ pc[t] = "rret" /\ rc[t].ret = "io"
      /\ chan = rc[t].prev
      /\ \A c \in Chans : ChanList(c) = rc[t].pre[c]
\* a failed AppendFileWriter on channels that hold an appended sink
C6_Witness ==
  \E t \in Procs :
    /\ rc[t].op = "AppendFileWriter" /\ rc[t].err = "io" /\ pc[t] = "rret"
    /\ \A c \in Chans : Len(rc[t].pre[c]) = 2

\* C7: Output returns nil and has invoked every sink of its list, also when
\* sinks returned errors.
C7_SinkErrorsSwallowed ==
  \A t \in Procs :
    Returned(t) => (em[t].ret = "nil" /\ InvOuts(t) = ListOf(em[t].d))
\* an Output that has returned with a failing sink in the middle of its list
C7_Witness ==
  \E t \in Procs :
    /\ Returned(t) /\ Len(em[t].inv) = 3
    /\ em[t].inv[2].err /\ ~em[t].inv[3].err

\* C8: the process exits, with status 1, only from a Fatal or Fatalf call
\* whose Output has returned with every sink invoked and the lock released;
\* once Output has returned such a call can only exit, never return to its
\* caller, whatever the sinks did; and nothing runs after the exit.
C8_FatalWritesThenExits ==
  /\ status = "exited" =>
       /\ exitCode = 1
       /\ ~ENABLED Next
       /\ \E t \in Procs :
            /\ pc[t] = "exit" /\ em[t].fn \in {"Fatal", "Fatalf"}
            /\ em[t].ret = "nil" /\ Len(em[t].inv) = em[t].rl
            /\ exclusiv # t
  /\ \A t \in Procs :
       (Running /\ em[t].fn \in {"Fatal", "Fatalf"} /\ pc[t] = "ret")
         => (ENABLED Exit(t) /\ ~ENABLED Return(t))
\* the process has exited from a Fatal call one of whose sinks failed
C8_Witness ==
  \E t \in Procs :
    /\ status = "exited" /\ pc[t] = "exit" /\ Len(em[t].inv) = 2
    /\ em[t].inv[2].err

\* the tag the claims give each channel
ClaimTag == [Ilog |-> "I:", Dlog |-> "D:", Wlog |-> "W:", Flog |-> "C:"]

\* C9: when SetFlags(flags) returns, each channel has a fresh writer of its
\* own whose only sink is the standard-output sink with the channel's tag
\* and the given flags.
C9_SetFlagsRebuilds ==
  \A t \in Procs :
    (pc[t] = "rret" /\ rc[t].op = "SetFlags") =>
      /\ \A c \in Chans :
           ChanList(c) = <<[dest |-> "stdout", prefix |-> ClaimTag[c],
                            flags |-> rc[t].flags]>>
      /\ \A c, c2 \in Chans : chan[c] # rc[t].prev[c2]
      /\ \A c, c2 \in Chans : c # c2 => chan[c] # chan[c2]
\* SetFlags has returned on channels that held file sinks
C9_Witness ==
  \E t \in Procs :
    /\ pc[t] = "rret" /\ rc[t].op = "SetFlags"
    /\ \A c \in Chans : \E k \in 1..Len(rc[t].pre[c]) :
         rc[t].pre[c][k].dest \in Paths \cup Handles

\* C10: when AppendFileWriter succeeds or AppendFileDescriptor returns, each
\* channel has its old writer, whose list is the list at the call followed
\* by one sink on the given file with the channel's tag.
C10_OneSinkPerChannel ==
  \A t \in Procs :
    ( /\ pc[t] = "rret"
      /\ rc[t].op \in {"AppendFileWriter", "AppendFileDescriptor"}
      /\ rc[t].err # "io" ) =>
      /\ chan = rc[t].prev
      /\ \A c \in Chans :
           ChanList(c) = Append(rc[t].pre[c],
                                [dest |-> rc[t].f, prefix |-> ClaimTag[c],
                                 flags |-> DefaultFlags])
\* a successful AppendFileWriter after an AppendFileDescriptor
C10_Witness ==
  \E t \in Procs :
    /\ pc[t] = "rret" /\ rc[t].op = "AppendFileWriter" /\ rc[t].ret = "nil"
    /\ \A c \in Chans : Len(rc[t].pre[c]) = 2 /\ rc[t].pre[c][2].dest \in Handles

\* C11: a call of an emission function other than Debug and Debugf reads its
\* channel and reaches Output whatever Verbose is, never records a test of
\* Verbose, and comes back having invoked every sink of its channel's list;
\* and no step of a goroutine inside the package changes Verbose.
C11_VerboseGatesDebugOnly ==
  /\ [](\A t \in Procs :
          (em[t].fn \in EmitFns /\ ~Gated(em[t].fn)) =>
            /\ em[t].d # Nil /\ ~em[t].verbose
            /\ pc[t] = "ret" => Returned(t)
            /\ Returned(t) => InvOuts(t) = ListOf(em[t].d))
  /\ [][\A t \in Procs : pc'[t] # pc[t] => Verbose' = Verbose]_vars
\* a Warning call has written to both sinks of its channel while Verbose is
\* false
C11_Witness ==
  \E t \in Procs :
    /\ ~Verbose /\ Returned(t) /\ em[t].fn = "Warning" /\ Len(em[t].inv) = 2
    /\ em[t].inv[2].out.prefix = "W:"

\* t is inside an emission function and has not come back from Output
InEmission(t) == pc[t] \in {"recv", "lock", "range", "loop"}

\* C12: the lock is held exactly by a goroutine inside Output's locked
\* region, and under fair scheduling every emission call that has started
\* comes back from Output, with the lock released, as long as the process
\* lives.
C12_EmissionsReturn ==
  /\ [](\A t \in Procs : (exclusiv = t) <=> InFanout(t))
  /\ \A t \in Procs : InEmission(t) ~> (pc[t] = "ret" \/ ~Running)
\* a goroutine waits for the lock while the other holds it
C12_Witness ==
  \E t, u \in Procs : t # u /\ pc[t] = "lock" /\ exclusiv = u /\ pc[u] = "loop"

\* C13: a fan-out write that has invoked its first sink and has sinks left
\* to invoke is never cut off by the process exiting from a Fatal call.
C13_WritesRunToCompletion ==
  \A t \in Procs : MidFanout(t) => status # "exited"

\* C14: once Reset has returned and until the next reconfiguration call, no
\* goroutine is about to invoke a sink.
C14_ResetSilencesInFlight ==
  (silenced /\ \A u \in Procs : ~InReconf(u)) =>
    \A t \in Procs : ~ENABLED Invoke(t)

\* C15: every sink is invoked with depth 3, and with depth 3+up by
\* PrintfLevel(up, ...), whatever its position in the list.
C15_DepthPlusOne ==
  \A t \in Procs : \A k \in 1..Len(em[t].inv) :
    em[t].inv[k].depth = IF em[t].fn = "PrintfLevel" THEN 3 + em[t].up ELSE 3
\* PrintfLevel(1, ...) has written to three sinks
C15_Witness ==
  \E t \in Procs :
    /\ Returned(t) /\ em[t].fn = "PrintfLevel" /\ em[t].up = 1
    /\ Len(em[t].inv) = 3 /\ em[t].inv[3].depth = 4

Quiescent == \A t \in Procs : ~InReconf(t)

\* C17: whenever no reconfiguration is in progress, the four channels hold
\* pairwise distinct writers with equally long sink lists whose sinks at the
\* same position write to the same destination.
C17_ChannelsAligned ==
  Quiescent =>
    \A c, c2 \in Chans :
      /\ c # c2 => chan[c] # chan[c2]
      /\ Len(ChanList(c)) = Len(ChanList(c2))
      /\ \A k \in 1..Len(ChanList(c)) :
           k <= Len(ChanList(c2)) => ChanList(c)[k].dest = ChanList(c2)[k].dest

\* how often v occurs in sequence q
Count(q, v) == Cardinality({k \in 1..Len(q) : q[k] = v})

\* C19: when the calls that appended to the channels' first writers have
\* all returned and no SetFlags or Reset has replaced a writer, each channel's
\* list holds every sink it was given exactly as often as it was given it,
\* the constructor's sink first.
C19_ConcurrentAppendsKept ==
  (Quiescent /\ \A k \in 1..4 : chan[ChanSeq[k]] = k) =>
    \A c \in Chans :
      LET was == added[chan[c]] IN
        /\ Len(ChanList(c)) = Len(was)
        /\ ChanList(c)[1] = was[1]
        /\ \A k \in 1..Len(was) : Count(ChanList(c), was[k]) = Count(was, was[k])

\* C18: an Output that runs inside the Output of another MultiplePrint
\* terminates: it never waits for the mutex while its own goroutine holds it.
C18_NestedOutputTerminates ==
  \A t \in Procs : pc[t] = "lock" => exclusiv # t

====
